---- MODULE Spec2Model ----
(***************************************************************************)
(* Model of the BASTA webhook adapter (src/server.js): the raw-body        *)
(* middleware, the template table, the POST /webhook handler, the          *)
(* GET /health handler and start().                                        *)
(*                                                                         *)
(* JavaScript values are records [k, s, n]: k is the typeof-like kind, s   *)
(* the text of a string, n the number (or 0/1 for a boolean).  A data      *)
(* object is a function from the field names the templates read to such    *)
(* values; a key the object does not have reads as Undefined.              *)
(***************************************************************************)
EXTENDS Integers, Sequences, FiniteSets, TLC

VARIABLES
    redis,      \* the module-level redis handle: "unset", "connecting", "ready", "down"
    listening,  \* app.listen has been called
    req,        \* the webhook request being served (one request-response cycle)
    bus,        \* the publish command in flight on the bus, then its delivery
    health,     \* outcome of the latest GET /health attempt
    tin,        \* translator harness: the (action type, data) input
    tout        \* translator harness: the result of the template

vars == <<redis, listening, req, bus, health, tin, tout>>

-----------------------------------------------------------------------------
(* Bounds *)

MaxPresent == 2      \* data fields present in a translator input

-----------------------------------------------------------------------------
(* JavaScript values *)

Undefined == [k |-> "undefined", s |-> "", n |-> 0]
Null == [k |-> "null", s |-> "", n |-> 0]
Str(x) == [k |-> "string", s |-> x, n |-> 0]
Num(i) == [k |-> "number", s |-> "", n |-> i]
Bool(b) == [k |-> "boolean", s |-> "", n |-> IF b THEN 1 ELSE 0]
Obj == [k |-> "object", s |-> "", n |-> 0]

\* ToBoolean, as applied by ||, ! and if
Truthy(v) ==
    CASE v.k = "undefined" -> FALSE
      [] v.k = "null" -> FALSE
      [] v.k = "string" -> v.s # ""
      [] v.k = "number" -> v.n # 0
      [] v.k = "boolean" -> v.n = 1
      [] OTHER -> TRUE

\* a || b
Or(a, b) == IF Truthy(a) THEN a ELSE b

\* a === "text"
IsStr(v, x) == v.k = "string" /\ v.s = x

-----------------------------------------------------------------------------
(* Data objects *)

StrFields == {"bidderName", "previousBidderName", "itemId", "title",
              "content.title", "leadingBidderName", "winnerName", "saleId",
              "saleType"}
NumFields == {"amount", "bidSequenceNumber", "currentBid", "finalPrice",
              "totalBids", "totalItems"}
StatusFields == {"newStatus", "status"}
Fields == StrFields \cup NumFields \cup StatusFields \cup {"closedWithBids", "content"}

StatusTexts == {"", "ITEM_OPEN", "ITEM_CLOSING", "ITEM_CLOSED", "OPENED", "CLOSED", "BOGUS"}

\* the values a present field takes in the inputs; a truthy string is the
\* field's own name, so that the source of an output field can be told
FieldValues(f) ==
    IF f \in StrFields THEN {Null, Str(""), Str(f)}
    ELSE IF f \in NumFields THEN {Null, Num(0), Num(50)}
    ELSE IF f \in StatusFields THEN {Null} \cup {Str(x) : x \in StatusTexts}
    ELSE IF f = "closedWithBids" THEN {Null, Bool(FALSE), Bool(TRUE)}
    ELSE {Null, Obj}

EmptyObject == [f \in {} |-> Undefined]

\* o[key], undefined for a key o does not have
Field(o, key) == IF key \in DOMAIN o THEN o[key] ELSE Undefined

\* o with key set to v
With(o, key, v) == (key :> v) @@ o

\* a title inside content makes content an object
WithContent(d) ==
    IF "content.title" \in DOMAIN d THEN With(d, "content", Obj) ELSE d

\* the partial assignments of at most k fields
RECURSIVE Assignments(_)
Assignments(k) ==
    IF k = 0 THEN {EmptyObject}
    ELSE LET P == Assignments(k - 1)
         IN  P \cup UNION {{g @@ (f :> v) : v \in FieldValues(f)} :
                              g \in P, f \in Fields}

\* the data objects with at most k fields present
DataObjects(k) ==
    {WithContent(g) : g \in Assignments(k)}

TranslatorData == DataObjects(MaxPresent)

-----------------------------------------------------------------------------
(* The template table, server.js lines 31-120 *)

\* d.content?.title
ContentTitle(d) ==
    IF Field(d, "content").k \in {"undefined", "null"} THEN Undefined ELSE Field(d, "content.title")

\* BidOnItemV2 with the bid count defaulting to 0
BidOnItemV2_ZeroCount(d) ==
    [type |-> Str("BID_RECEIVED"),
     data |-> [type |-> Str("BID_RECEIVED"),
               userName |-> Or(Field(d, "bidderName"), Str("someone")),
               amount |-> Or(Field(d, "amount"), Num(0)),
               bidCount |-> Or(Field(d, "bidSequenceNumber"), Num(0)),
               bidVelocity |-> Num(0),
               previousLeaderName |-> Or(Field(d, "previousBidderName"), Null),
               itemId |-> Field(d, "itemId")]]

BidOnItemV2(d) ==
    [type |-> Str("BID_RECEIVED"),
     data |-> [type |-> Str("BID_RECEIVED"),
               userName |-> Or(Field(d, "bidderName"), Str("someone")),
               amount |-> Or(Field(d, "amount"), Num(0)),
               bidCount |-> Or(Field(d, "bidSequenceNumber"), Num(1)),
               bidVelocity |-> Num(0),
               previousLeaderName |-> Or(Field(d, "previousBidderName"), Null),
               itemId |-> Field(d, "itemId")]]

ItemStatusChangedV2(d) ==
    LET status == Or(Field(d, "newStatus"), Field(d, "status"))
    IN  IF IsStr(status, "ITEM_OPEN") THEN
            [type |-> Str("ITEM_START"),
             data |-> [type |-> Str("ITEM_START"),
                       itemId |-> Field(d, "itemId"),
                       title |-> Or(Or(Field(d, "title"), ContentTitle(d)), Str(""))]]
        ELSE IF IsStr(status, "ITEM_CLOSING") THEN
            [type |-> Str("GOING_ONCE"),
             data |-> [type |-> Str("GOING_ONCE"),
                       currentBid |-> Or(Field(d, "currentBid"), Num(0)),
                       leaderName |-> Or(Field(d, "leadingBidderName"), Str("the leader"))]]
        ELSE IF IsStr(status, "ITEM_CLOSED") THEN
            IF Truthy(Field(d, "closedWithBids")) THEN
                [type |-> Str("ITEM_CLOSED_SOLD"),
                 data |-> [type |-> Str("ITEM_CLOSED_SOLD"),
                           winnerName |-> Or(Field(d, "winnerName"), Str("the winner")),
                           finalPrice |-> Or(Field(d, "finalPrice"), Num(0)),
                           totalBids |-> Or(Field(d, "totalBids"), Num(0)),
                           title |-> Or(Or(Field(d, "title"), ContentTitle(d)), Str(""))]]
            ELSE
                [type |-> Str("ITEM_CLOSED_PASSED"),
                 data |-> [type |-> Str("ITEM_CLOSED_PASSED"),
                           title |-> Or(Or(Field(d, "title"), ContentTitle(d)), Str("")),
                           reason |-> Str("No bids received")]]
        ELSE Null

\* SaleStatusChangedV2 without the final return null
SaleStatusChangedV2_NoDrop(d) ==
    LET status == Or(Field(d, "newStatus"), Field(d, "status"))
    IN  IF IsStr(status, "OPENED") THEN
            [type |-> Str("AUCTION_START"),
             data |-> [type |-> Str("AUCTION_START"),
                       auctionTitle |-> Or(Or(Field(d, "title"), ContentTitle(d)), Str("the auction")),
                       totalItems |-> Or(Field(d, "totalItems"), Num(0))]]
        ELSE [type |-> Str("AUCTION_END"), data |-> [type |-> Str("AUCTION_END")]]

SaleStatusChangedV2(d) ==
    LET status == Or(Field(d, "newStatus"), Field(d, "status"))
    IN  IF IsStr(status, "OPENED") THEN
            [type |-> Str("AUCTION_START"),
             data |-> [type |-> Str("AUCTION_START"),
                       auctionTitle |-> Or(Or(Field(d, "title"), ContentTitle(d)), Str("the auction")),
                       totalItems |-> Or(Field(d, "totalItems"), Num(0))]]
        ELSE IF IsStr(status, "CLOSED") THEN
            [type |-> Str("AUCTION_END"), data |-> [type |-> Str("AUCTION_END")]]
        ELSE Null

SaleUpdated(d) ==
    [type |-> Str("SALE_UPDATED"),
     data |-> [type |-> Str("SALE_UPDATED"),
               saleId |-> Field(d, "saleId"),
               title |-> Or(ContentTitle(d), Str("")),
               saleType |-> Or(Field(d, "saleType"), Str(""))]]

ItemUpdated(d) ==
    [type |-> Str("ITEM_UPDATED"),
     data |-> [type |-> Str("ITEM_UPDATED"),
               itemId |-> Field(d, "itemId"),
               title |-> Or(Or(ContentTitle(d), Field(d, "title")), Str(""))]]

\* the own keys of templates
TemplateKeys == {"BidOnItemV2", "ItemStatusChangedV2", "SaleStatusChangedV2",
                 "SaleUpdated", "ItemUpdated"}

\* the own template under a key
Template(key, d) ==
    CASE key = "BidOnItemV2" -> BidOnItemV2(d)
      [] key = "ItemStatusChangedV2" -> ItemStatusChangedV2(d)
      [] key = "SaleStatusChangedV2" -> SaleStatusChangedV2(d)
      [] key = "SaleUpdated" -> SaleUpdated(d)
      [] key = "ItemUpdated" -> ItemUpdated(d)

-----------------------------------------------------------------------------
(* Request bodies and the raw-body middleware, server.js lines 9-21 *)

\* a parsed body: an object (its own keys in top, the objects under its data
\* and payload keys in data and payload), null or a number
ObjectBody(top, data, payload) ==
    [k |-> "object", top |-> top, data |-> data, payload |-> payload]
NullBody == [k |-> "null", top |-> EmptyObject, data |-> EmptyObject, payload |-> EmptyObject]
NumberBody == [k |-> "number", top |-> EmptyObject, data |-> EmptyObject, payload |-> EmptyObject]

\* req.body = body ? JSON.parse(body) : {}, with the { _raw: body } fallback
ParseBody(raw) ==
    IF raw.text = "empty" THEN ObjectBody(EmptyObject, EmptyObject, EmptyObject)
    ELSE IF raw.text = "invalid" THEN
        ObjectBody(With(EmptyObject, "_raw", Str("not json")), EmptyObject, EmptyObject)
    ELSE raw.value

-----------------------------------------------------------------------------
(* POST /webhook, server.js lines 123-157 *)

SALE_ID == "test"
Channel == "agent:events:" \o SALE_ID

\* payload[key] for a payload that is not null: a number has no such property
Get(payload, key) == IF payload.k = "object" THEN Field(payload.top, key) ELSE Undefined

\* the discriminator read from actionType alone
ExtractEventType_ActionTypeOnly(payload) == Get(payload, "actionType")

\* payload.actionType || payload.type
ExtractEventType(payload) == Or(Get(payload, "actionType"), Get(payload, "type"))

\* payload.data || payload; a number read as a data object has no fields
ExtractData(payload) ==
    IF Truthy(Get(payload, "data")) THEN payload.data
    ELSE IF payload.k = "object" THEN payload.top
    ELSE EmptyObject

\* templates[eventType]: an own key, else a property inherited from
\* Object.prototype, else undefined
InheritedKeys == {"constructor", "toString", "valueOf"}
Lookup(eventType) ==
    IF eventType.k = "string" /\ eventType.s \in TemplateKeys \cup InheritedKeys
    THEN Str(eventType.s) ELSE Undefined

Thrown(name) == [throw |-> name]
IsThrown(r) == "throw" \in DOMAIN r

\* mapper(data): an own template; Object(data) returns data itself;
\* Object.prototype.toString and valueOf are called with this undefined
Call(mapper, d) ==
    IF mapper.s \in TemplateKeys THEN Template(mapper.s, d)
    ELSE IF mapper.s = "constructor" THEN [type |-> Field(d, "type"), boxed |-> d]
    ELSE IF mapper.s = "toString" THEN [type |-> Undefined, text |-> "[object Undefined]"]
    ELSE Thrown("TypeError")

\* !event
Falsy(event) == "k" \in DOMAIN event /\ ~Truthy(event)

\* JSON.stringify keeps the keys whose value is not undefined
Stringify(o) == [f \in {g \in DOMAIN o : o[g] # Undefined} |-> o[f]]
StringifyEvent(event) ==
    IF "data" \in DOMAIN event THEN [type |-> event.type, data |-> Stringify(event.data)]
    ELSE IF "boxed" \in DOMAIN event THEN [boxed |-> Stringify(event.boxed)]
    ELSE [text |-> event.text]

NoResponse == [status |-> 0, ok |-> FALSE, handled |-> FALSE, type |-> Undefined]
\* res.status(200).json({ ok: true, handled: false })
NotHandled == [status |-> 200, ok |-> TRUE, handled |-> FALSE, type |-> Undefined]
\* res.status(200).json({ ok: true, handled: true, type: event.type })
Handled(event) == [status |-> 200, ok |-> TRUE, handled |-> TRUE, type |-> event.type]
\* the framework's answer to an error passed on by the handler
ServerError == [status |-> 500, ok |-> FALSE, handled |-> FALSE, type |-> Undefined]

\* a response that reports the failure of the publish
ResponseAfterPublish_Failing(event, outcome) ==
    IF outcome = "rejected" THEN ServerError ELSE Handled(event)

\* the response sent once the awaited publish has settled, whichever way
ResponseAfterPublish(event, outcome) == Handled(event)

\* an exception leaves the async handler as a rejected promise: the
\* framework either answers 500 or never sees it and no response is sent
UncaughtOutcomes == {ServerError, NoResponse}

NoRaw == [text |-> "none", value |-> NullBody]
NoRequest ==
    [stage |-> "none", raw |-> NoRaw, body |-> NullBody, eventType |-> Undefined,
     mapper |-> Undefined, event |-> Null, response |-> NoResponse,
     responses |-> 0, publishes |-> 0, error |-> ""]

NoMessage == [state |-> "idle", channel |-> "", message |-> [text |-> ""]]

-----------------------------------------------------------------------------
(* Inputs *)

ActionTypes == TemplateKeys \cup InheritedKeys \cup {"Foo"}
DiscriminatorKeys == {"actionType", "type", "eventType", "action", "event"}

\* the discriminator part of a body: none, an action type under one key, or
\* two different action types under actionType and type
Discriminators ==
    {EmptyObject}
    \cup {With(EmptyObject, k, Str(t)) : k \in DiscriminatorKeys, t \in ActionTypes}
    \cup {With(With(EmptyObject, "actionType", Str(a)), "type", Str(b)) :
            a \in {"Foo"}, b \in TemplateKeys}
    \cup {With(With(EmptyObject, "actionType", Str(a)), "type", Str(b)) :
            a \in TemplateKeys, b \in {"Foo"}}

\* data objects sent in webhook bodies: the two documented examples, each
\* status under each status key, and the status combinations
SampleData ==
    {EmptyObject,
     With(With(EmptyObject, "amount", Num(50)), "itemId", Str("x1")),
     With(With(With(EmptyObject, "newStatus", Str("ITEM_CLOSED")),
               "closedWithBids", Bool(FALSE)), "title", Str("Lot 3")),
     With(With(EmptyObject, "newStatus", Str("ITEM_CLOSED")), "closedWithBids", Bool(TRUE)),
     With(With(EmptyObject, "newStatus", Str("")), "status", Str("ITEM_OPEN")),
     With(With(EmptyObject, "newStatus", Str("BOGUS")), "status", Str("ITEM_OPEN"))}
    \cup {With(EmptyObject, f, Str(x)) : f \in StatusFields, x \in StatusTexts}

\* d's fields as own keys of the body o
Inline(o, d) == d @@ o

ObjectBodies ==
    {ObjectBody(With(o, "data", Obj), d, EmptyObject) : o \in Discriminators, d \in SampleData}
    \cup {ObjectBody(With(o, "payload", Obj), EmptyObject, d) : o \in Discriminators, d \in SampleData}
    \cup {ObjectBody(Inline(o, d), EmptyObject, EmptyObject) : o \in Discriminators, d \in SampleData}

RawBodies ==
    {[text |-> "empty", value |-> NullBody], [text |-> "invalid", value |-> NullBody],
     [text |-> "json", value |-> NullBody], [text |-> "json", value |-> NumberBody]}
    \cup {[text |-> "json", value |-> b] : b \in ObjectBodies}

-----------------------------------------------------------------------------
(* start(), server.js lines 165-179, and the connection *)

\* redis?.isReady
IsReady(r) == r = "ready"

\* await redis.connect() completes and start() goes on to app.listen
Connected ==
    /\ redis = "connecting"
    /\ redis' = "ready"
    /\ listening' = TRUE
    /\ UNCHANGED <<req, bus, health, tin, tout>>

\* redis.connect() rejects: start().catch(console.error), nothing listens
ConnectFails ==
    /\ redis = "connecting"
    /\ redis' = "failed"
    /\ UNCHANGED <<listening, req, bus, health, tin, tout>>

\* the connection drops while the server runs; the client reconnects
ConnectionDrops ==
    /\ redis = "ready"
    /\ redis' = "down"
    /\ UNCHANGED <<listening, req, bus, health, tin, tout>>

Reconnected ==
    /\ redis = "down"
    /\ redis' = "ready"
    /\ UNCHANGED <<listening, req, bus, health, tin, tout>>

-----------------------------------------------------------------------------
(* GET /health, server.js lines 160-162 *)

HealthBody(r) == [status |-> "ok", redis |-> IF IsReady(r) THEN "connected" ELSE "disconnected"]

\* a client asks for /health: refused while nothing listens
HealthProbe ==
    /\ health' = IF listening
                 THEN [result |-> "answered", at |-> redis, body |-> HealthBody(redis)]
                 ELSE [result |-> "refused", at |-> redis, body |-> [status |-> "", redis |-> ""]]
    /\ health' # health
    /\ UNCHANGED <<redis, listening, req, bus, tin, tout>>

-----------------------------------------------------------------------------
(* One webhook request *)

\* a POST /webhook arrives
Receive ==
    /\ listening
    /\ req.stage = "none"
    /\ \E raw \in RawBodies :
          req' = [NoRequest EXCEPT !.stage = "received", !.raw = raw]
    /\ bus' = NoMessage
    /\ UNCHANGED <<redis, listening, health, tin, tout>>

\* the raw-body middleware: on "end", parse and call next()
Middleware ==
    /\ req.stage = "received"
    /\ req' = [req EXCEPT !.stage = "parsed", !.body = ParseBody(req.raw)]
    /\ UNCHANGED <<redis, listening, bus, health, tin, tout>>

\* the handler throws: one of the outcomes of a rejected async handler
Throw(name, eventType, mapper) ==
    /\ \E r \in UncaughtOutcomes :
          req' = [req EXCEPT !.stage = "failed", !.error = name, !.eventType = eventType,
                             !.mapper = mapper, !.response = r,
                             !.responses = IF r = NoResponse THEN 0 ELSE 1]
    /\ bus' = bus

\* the handler up to its response, its exception or its await
Handler ==
    /\ req.stage = "parsed"
    /\ LET payload == req.body
       IN  IF payload.k = "null" THEN Throw("TypeError", Undefined, Undefined)
           ELSE
           LET eventType == ExtractEventType(payload)
               data == ExtractData(payload)
               mapper == Lookup(eventType)
           IN  IF ~Truthy(mapper)
               THEN \* line 137 reads templateKey, which is declared nowhere
                    Throw("ReferenceError", eventType, mapper)
               ELSE
               LET event == Call(mapper, data)
               IN  IF IsThrown(event) THEN Throw("TypeError", eventType, mapper)
                   ELSE IF Falsy(event) THEN
                       /\ req' = [req EXCEPT !.stage = "responded", !.eventType = eventType,
                                             !.mapper = mapper, !.event = event,
                                             !.response = NotHandled, !.responses = 1]
                       /\ bus' = bus
                   ELSE
                       /\ req' = [req EXCEPT !.stage = "awaiting", !.eventType = eventType,
                                             !.mapper = mapper, !.event = event,
                                             !.publishes = 1]
                       /\ bus' = [state |-> "pending", channel |-> Channel,
                                  message |-> StringifyEvent(event)]
    /\ UNCHANGED <<redis, listening, health, tin, tout>>

\* the publish resolves and the handler resumes after the await
PublishResolved ==
    /\ req.stage = "awaiting"
    /\ bus.state = "pending"
    /\ redis = "ready"
    /\ bus' = [bus EXCEPT !.state = "delivered"]
    /\ req' = [req EXCEPT !.stage = "responded",
                          !.response = ResponseAfterPublish(req.event, "resolved"),
                          !.responses = 1]
    /\ UNCHANGED <<redis, listening, health, tin, tout>>

\* the publish rejects and the handler resumes in its catch
PublishRejected ==
    /\ req.stage = "awaiting"
    /\ bus.state = "pending"
    /\ bus' = [bus EXCEPT !.state = "rejected"]
    /\ req' = [req EXCEPT !.stage = "responded",
                          !.response = ResponseAfterPublish(req.event, "rejected"),
                          !.responses = 1]
    /\ UNCHANGED <<redis, listening, health, tin, tout>>

\* the request-response cycle is over and its objects are discarded
Release ==
    /\ req.stage \in {"responded", "failed"}
    /\ req' = NoRequest
    /\ bus' = NoMessage
    /\ UNCHANGED <<redis, listening, health, tin, tout>>

-----------------------------------------------------------------------------
(* The translator alone *)

Translate ==
    /\ tout = Undefined
    /\ tout' = Template(tin.type, tin.data)
    /\ UNCHANGED <<redis, listening, req, bus, health, tin>>

-----------------------------------------------------------------------------
(* Specifications *)

NoHealth == [result |-> "none", at |-> "", body |-> [status |-> "", redis |-> ""]]
NoInput == [type |-> "", data |-> EmptyObject]

Init ==
    /\ redis = "connecting"
    /\ listening = FALSE
    /\ req = NoRequest
    /\ bus = NoMessage
    /\ health = NoHealth
    /\ tin = NoInput
    /\ tout = Undefined

Next ==
    \/ Connected
    \/ ConnectFails
    \/ ConnectionDrops
    \/ Reconnected
    \/ HealthProbe
    \/ Receive
    \/ Middleware
    \/ Handler
    \/ PublishResolved
    \/ PublishRejected
    \/ Release

Spec == Init /\ [][Next]_vars

\* the handler's own steps are taken when they can be; whether and when the
\* bus settles a publish is not the server's to decide
LiveSpec == Spec /\ WF_vars(Middleware) /\ WF_vars(Handler)

\* every known action type applied to every data object
InitT ==
    /\ redis = "connecting"
    /\ listening = FALSE
    /\ req = NoRequest
    /\ bus = NoMessage
    /\ health = NoHealth
    /\ tin \in [type : TemplateKeys, data : TranslatorData]
    /\ tout = Undefined

NextT == Translate

SpecT == InitT /\ [][NextT]_vars

-----------------------------------------------------------------------------
(* Properties *)

Finished == req.stage \in {"responded", "failed"}
KnownType(v) == v.k = "string" /\ v.s \in TemplateKeys
Missing(v) == v = Undefined
NormalizedTypes == {"BID_RECEIVED", "ITEM_START", "GOING_ONCE", "ITEM_CLOSED_SOLD",
                    "ITEM_CLOSED_PASSED", "AUCTION_START", "AUCTION_END",
                    "SALE_UPDATED", "ITEM_UPDATED"}

\* C1: every POST /webhook request, whatever its body, ends with exactly one
\* response, of status 200 with ok = true, and never in an uncaught exception.
C1_AlwaysOk ==
    Finished => /\ req.error = ""
                /\ req.responses = 1
                /\ req.response.status = 200
                /\ req.response.ok

\* C2: a request whose action type is not a key of the template table finds
\* no mapper, publishes nothing and is answered 200 { ok: true, handled: false }.
C2_UnmappedNotHandled ==
    (Finished /\ ~KnownType(req.eventType))
        => /\ req.mapper = Undefined
           /\ req.publishes = 0
           /\ bus = NoMessage
           /\ req.response = NotHandled

\* C3: once translation produced an event, the response is
\* 200 { ok: true, handled: true, type: event.type } whether the publish
\* resolved or rejected, and no exception leaves the handler.
C3_PublishOutcomeHidden ==
    (Finished /\ req.publishes = 1)
        => /\ bus.state \in {"delivered", "rejected"}
           /\ req.error = ""
           /\ req.responses = 1
           /\ req.response = [status |-> 200, ok |-> TRUE, handled |-> TRUE,
                              type |-> req.event.type]

C3_Witness ==
    /\ req.stage = "responded"
    /\ bus.state = "rejected"
    /\ req.response.status = 200
    /\ req.response.handled
    /\ req.response.type = Str("BID_RECEIVED")

\* the status a data object carries: newStatus, else status
StatusIs(d, x) ==
    \/ IsStr(Field(d, "newStatus"), x)
    \/ Field(d, "newStatus") \in {Undefined, Null} /\ IsStr(Field(d, "status"), x)

NoTitle(d) == Missing(Field(d, "title")) /\ Missing(ContentTitle(d))

\* C4: every known action type and status combination gives its documented
\* variant, with the documented default for each absent input field, and
\* data.type equal to type.
C4_VariantsAndDefaults ==
    tout # Undefined =>
    LET d == tin.data
        t == tin.type
        o == tout
    IN  /\ t = "BidOnItemV2" =>
              /\ o.type = Str("BID_RECEIVED") /\ o.data.type = o.type
              /\ Missing(Field(d, "bidderName")) => o.data.userName = Str("someone")
              /\ Missing(Field(d, "amount")) => o.data.amount = Num(0)
              /\ Missing(Field(d, "bidSequenceNumber")) => o.data.bidCount = Num(1)
              /\ o.data.bidVelocity = Num(0)
              /\ Missing(Field(d, "previousBidderName")) => o.data.previousLeaderName = Null
        /\ (t = "ItemStatusChangedV2" /\ StatusIs(d, "ITEM_OPEN")) =>
              /\ o.type = Str("ITEM_START") /\ o.data.type = o.type
              /\ NoTitle(d) => o.data.title = Str("")
        /\ (t = "ItemStatusChangedV2" /\ StatusIs(d, "ITEM_CLOSING")) =>
              /\ o.type = Str("GOING_ONCE") /\ o.data.type = o.type
              /\ Missing(Field(d, "currentBid")) => o.data.currentBid = Num(0)
              /\ Missing(Field(d, "leadingBidderName")) => o.data.leaderName = Str("the leader")
        /\ (t = "ItemStatusChangedV2" /\ StatusIs(d, "ITEM_CLOSED")
                /\ Field(d, "closedWithBids") = Bool(TRUE)) =>
              /\ o.type = Str("ITEM_CLOSED_SOLD") /\ o.data.type = o.type
              /\ Missing(Field(d, "winnerName")) => o.data.winnerName = Str("the winner")
              /\ Missing(Field(d, "finalPrice")) => o.data.finalPrice = Num(0)
              /\ Missing(Field(d, "totalBids")) => o.data.totalBids = Num(0)
              /\ NoTitle(d) => o.data.title = Str("")
        /\ (t = "ItemStatusChangedV2" /\ StatusIs(d, "ITEM_CLOSED")
                /\ Field(d, "closedWithBids") \in {Bool(FALSE), Undefined}) =>
              /\ o.type = Str("ITEM_CLOSED_PASSED") /\ o.data.type = o.type
              /\ NoTitle(d) => o.data.title = Str("")
              /\ o.data.reason = Str("No bids received")
        /\ (t = "SaleStatusChangedV2" /\ StatusIs(d, "OPENED")) =>
              /\ o.type = Str("AUCTION_START") /\ o.data.type = o.type
              /\ NoTitle(d) => o.data.auctionTitle = Str("the auction")
              /\ Missing(Field(d, "totalItems")) => o.data.totalItems = Num(0)
        /\ (t = "SaleStatusChangedV2" /\ StatusIs(d, "CLOSED")) =>
              o = [type |-> Str("AUCTION_END"), data |-> [type |-> Str("AUCTION_END")]]
        /\ t = "SaleUpdated" => (o.type = Str("SALE_UPDATED") /\ o.data.type = o.type)
        /\ t = "ItemUpdated" => (o.type = Str("ITEM_UPDATED") /\ o.data.type = o.type)

C4_Witness ==
    /\ tin.type = "BidOnItemV2"
    /\ tin.data = With(EmptyObject, "amount", Num(50))
    /\ tout # Undefined
    /\ tout.data.bidCount = Num(1)
    /\ tout.data.userName = Str("someone")

\* the status the translator goes by: newStatus, else status
StatusOf(d) == IF Truthy(Field(d, "newStatus")) THEN Field(d, "newStatus") ELSE Field(d, "status")
StatusCases(t) == IF t = "ItemStatusChangedV2" THEN {"ITEM_OPEN", "ITEM_CLOSING", "ITEM_CLOSED"}
                  ELSE {"OPENED", "CLOSED"}
Unmatched(t, d) == ~(StatusOf(d).k = "string" /\ StatusOf(d).s \in StatusCases(t))

C6_OnlyNormalizedEvents ==
    /\ bus.state # "idle" =>
          /\ bus.channel = "agent:events:" \o SALE_ID
          /\ DOMAIN bus.message = {"type", "data"}
          /\ bus.message.type.k = "string"
          /\ bus.message.type.s \in NormalizedTypes
          /\ bus.message.data.type = bus.message.type
    /\ (req.stage # "none" /\ ~KnownType(req.eventType)) =>
          /\ req.publishes = 0
          /\ ~req.response.handled

\* C7: the response of a request whose translation produced an event is
\* sent even if the one publish attempt never completes.
C7_ResponseDoesNotWait ==
    [](req.stage = "awaiting" => <>(req.responses = 1))

\* C8: a health request made before the bus connection completes is answered
\* "disconnected", one made while the connection is up is answered
\* "connected", one made after it dropped "disconnected", always with
\* status "ok".
C8_HealthReportsConnection ==
    health.result # "none" =>
        /\ health.result = "answered"
        /\ health.body.status = "ok"
        /\ health.body.redis = IF health.at = "ready" THEN "connected" ELSE "disconnected"

\* the discriminator keys a body carries
Carried(body) == {k \in DiscriminatorKeys : ~Missing(Field(body.top, k))}

\* the data object under data, else under payload, else the body itself
DocumentedData(body) ==
    IF ~Missing(Field(body.top, "data")) THEN body.data
    ELSE IF ~Missing(Field(body.top, "payload")) THEN body.payload
    ELSE body.top

\* C9 as stated: a body carrying a known action type under any one of type,
\* eventType, action, actionType, event, with its data under data, under
\* payload or as the whole body, is translated to the event of that action
\* type and data.
C9_EveryVariantAccepted ==
    (Finished /\ req.body.k = "object") =>
        \A k \in DiscriminatorKeys :
            (Carried(req.body) = {k} /\ KnownType(Field(req.body.top, k))) =>
                /\ req.eventType = Field(req.body.top, k)
                /\ req.event = Template(Field(req.body.top, k).s, DocumentedData(req.body))

\* the data object under data, else the body itself
ReadData(body) == IF ~Missing(Field(body.top, "data")) THEN body.data ELSE body.top

\* C9 as amended: the action type is read from actionType, or from type when
\* actionType is absent, and the data from data, or the whole body when data
\* is absent, so these variants of one event are translated alike;
\* eventType, action, event and payload are not read.
C9_TwoVariantsAccepted ==
    (Finished /\ req.body.k = "object") =>
        LET top == req.body.top
        IN  /\ \A k \in {"actionType", "type"} :
                  (Carried(req.body) \cap {"actionType", "type"} = {k} /\ KnownType(Field(top, k))) =>
                      /\ req.eventType = Field(top, k)
                      /\ req.error = ""
                      /\ req.event = Template(Field(top, k).s, ReadData(req.body))
            /\ Carried(req.body) \cap {"actionType", "type"} = {} =>
                  /\ req.eventType = Undefined
                  /\ req.mapper = Undefined
                  /\ req.publishes = 0

C9_Witness ==
    /\ req.stage = "responded"
    /\ Carried(req.body) = {"type"}
    /\ Field(req.body.top, "type") = Str("BidOnItemV2")
    /\ Missing(Field(req.body.top, "data"))
    /\ Field(req.body.top, "amount") = Num(50)
    /\ req.event = BidOnItemV2(With(With(EmptyObject, "amount", Num(50)), "itemId", Str("x1")))
    /\ req.response.handled

\* the first candidate that is present and not null, else the default
FirstNonNull(candidates, default) ==
    LET present == {i \in 1..Len(candidates) : candidates[i] \notin {Undefined, Null}}
    IN  IF present = {} THEN default
        ELSE candidates[CHOOSE i \in present : \A j \in present : i <= j]

\* C10: every output field, and the status selector, takes the first
\* candidate that is present and not null, and the default only when none is;
\* a falsy value that is present is kept.
C10_FirstNonNullWins ==
    tout # Undefined =>
    LET d == tin.data
        t == tin.type
        o == tout
        status == FirstNonNull(<<Field(d, "newStatus"), Field(d, "status")>>, Undefined)
        title == FirstNonNull(<<Field(d, "title"), ContentTitle(d)>>, Str(""))
    IN  /\ t = "BidOnItemV2" =>
              /\ o.data.userName = FirstNonNull(<<Field(d, "bidderName")>>, Str("someone"))
              /\ o.data.amount = FirstNonNull(<<Field(d, "amount")>>, Num(0))
              /\ o.data.bidCount = FirstNonNull(<<Field(d, "bidSequenceNumber")>>, Num(1))
              /\ o.data.previousLeaderName = FirstNonNull(<<Field(d, "previousBidderName")>>, Null)
        /\ t = "ItemStatusChangedV2" =>
              /\ (o = Null) = ~(status.k = "string" /\ status.s \in StatusCases(t))
              /\ IsStr(status, "ITEM_OPEN") => (o # Null /\ o.type = Str("ITEM_START")
                                                 /\ o.data.title = title)
              /\ IsStr(status, "ITEM_CLOSING") =>
                    /\ o # Null /\ o.type = Str("GOING_ONCE")
                    /\ o.data.currentBid = FirstNonNull(<<Field(d, "currentBid")>>, Num(0))
                    /\ o.data.leaderName = FirstNonNull(<<Field(d, "leadingBidderName")>>, Str("the leader"))
        /\ t = "SaleStatusChangedV2" =>
              /\ (o = Null) = ~(status.k = "string" /\ status.s \in StatusCases(t))
              /\ IsStr(status, "OPENED") =>
                    /\ o # Null /\ o.type = Str("AUCTION_START")
                    /\ o.data.auctionTitle = FirstNonNull(<<Field(d, "title"), ContentTitle(d)>>,
                                                          Str("the auction"))
                    /\ o.data.totalItems = FirstNonNull(<<Field(d, "totalItems")>>, Num(0))
        /\ t = "SaleUpdated" =>
              /\ o.data.title = FirstNonNull(<<ContentTitle(d)>>, Str(""))
              /\ o.data.saleType = FirstNonNull(<<Field(d, "saleType")>>, Str(""))
        /\ t = "ItemUpdated" =>
              o.data.title = FirstNonNull(<<ContentTitle(d), Field(d, "title")>>, Str(""))

====
